---- MODULE Spec2Model ----
(***************************************************************************)
(* A model of z3/s3_client.py: the synchronous object-store operations,    *)
(* their asynchronous variants, the process-wide boto3 client they share,  *)
(* the remote store and the local filesystem they act on.                  *)
(*                                                                         *)
(* Object keys and prefixes are sequences of one-character strings, so     *)
(* that startswith / endswith / pathlib parsing are computed, not assumed. *)
(* A local path is a pathlib.Path: [root, parts], parts a sequence of      *)
(* components (each a sequence of characters).                             *)
(***************************************************************************)
EXTENDS Integers, Sequences, FiniteSets, TLC

VARIABLES
    plan,     \* per thread: the caller's program [env, after, calls]      (input)
    pages,    \* per env: what the backend answers a listing with          (input)
    chunk,    \* per env: the size of the chunks a body is streamed in     (input)
    failAt,   \* per env: which backend interaction fails (0: none)        (input)
    walk,     \* per env: the order in which a directory scan yields names (input)
    store,    \* per env: the remote store, <<bucket, key>> -> bytes
    fs,       \* per env: the local filesystem, path -> [kind, data]
    effects,  \* per env: backend requests and filesystem effects, in order
    io,       \* per env: number of backend interactions so far
    client,   \* per env: the module-global boto3 client, "open" / "closed"
    stack,    \* per thread: the call stack of the running operation
    outcome,  \* per thread: what the last frame returned or raised
    task,     \* per thread: "idle", "sync", "queued", "worker", "future"
    job,      \* per thread: the function and kwargs handed to the executor
    done,     \* per thread: the outcomes of the calls completed so far
    hit       \* per thread: the client was closed under its in-flight call

inputVars == <<plan, pages, chunk, failAt, walk>>
envVars == <<store, fs, effects, io, client>>
thrVars == <<stack, outcome, task, job, done, hit>>
vars == <<plan, pages, chunk, failAt, walk, store, fs, effects, io, client,
          stack, outcome, task, job, done, hit>>

Threads == {1, 2}
Envs == {"e1", "e2"}

----------------------------------------------------------------------------
(* Strings                                                                 *)

\* str.startswith("/")
startswith_slash(s) == Len(s) > 0 /\ s[1] = "/"

\* str.endswith("/")
endswith_slash(s) == Len(s) > 0 /\ s[Len(s)] = "/"

\* s.startswith(p): p is a leading string of s (the backend's Prefix filter)
StartsWith(s, p) == Len(p) <= Len(s) /\ SubSeq(s, 1, Len(p)) = p

IsPrefixSeq(p, s) == Len(p) <= Len(s) /\ \A i \in 1..Len(p) : p[i] = s[i]

----------------------------------------------------------------------------
(* pathlib (posix flavour)                                                 *)

RECURSIVE LeadingSlashes(_)
LeadingSlashes(s) ==
    IF s = <<>> \/ Head(s) # "/" THEN 0 ELSE 1 + LeadingSlashes(Tail(s))

\* the root of a parsed path: "" (relative), "/" or, for exactly two
\* leading slashes, "//"
PathRoot(s) ==
    LET n == LeadingSlashes(s)
    IN  IF n = 0 THEN "" ELSE IF n = 2 THEN "//" ELSE "/"

RECURSIVE SplitParts(_, _, _)
SplitParts(s, cur, acc) ==
    IF s = <<>>
    THEN IF cur = <<>> THEN acc ELSE Append(acc, cur)
    ELSE IF Head(s) = "/"
         THEN SplitParts(Tail(s), <<>>, IF cur = <<>> THEN acc ELSE Append(acc, cur))
         ELSE SplitParts(Tail(s), Append(cur, Head(s)), acc)

\* Path(s): the components between separators, empty components dropped
PurePath(s) == [root |-> PathRoot(s), parts |-> SplitParts(s, <<>>, <<>>)]

\* Path.relative_to(other) raises ValueError
RelativeToFails(p, other) ==
    \/ p.root # other.root
    \/ ~IsPrefixSeq(other.parts, p.parts)

\* Path.relative_to(other), where it does not raise
RelativeTo(p, other) ==
    [root |-> "", parts |-> SubSeq(p.parts, Len(other.parts) + 1, Len(p.parts))]

\* p / q for a relative q
JoinPath(p, q) == [root |-> p.root, parts |-> p.parts \o q.parts]

RECURSIVE JoinParts(_)
JoinParts(ps) ==
    IF ps = <<>> THEN <<>>
    ELSE IF Len(ps) = 1 THEN ps[1]
    ELSE ps[1] \o <<"/">> \o JoinParts(Tail(ps))

\* str(path)
PathStr(p) ==
    IF p.root = "" /\ p.parts = <<>> THEN <<".">>
    ELSE (IF p.root = "" THEN <<>> ELSE IF p.root = "/" THEN <<"/">> ELSE <<"/", "/">>)
         \o JoinParts(p.parts)

\* os.path.dirname(path): the path without its last component
Dirname(p) ==
    [root |-> p.root,
     parts |-> IF p.parts = <<>> THEN <<>> ELSE SubSeq(p.parts, 1, Len(p.parts) - 1)]

\* the ancestors os.makedirs walks: every non-empty leading part of p
Ancestors(p) ==
    {[root |-> p.root, parts |-> SubSeq(p.parts, 1, n)] : n \in 1..Len(p.parts)}

----------------------------------------------------------------------------
(* Finite maps                                                             *)

MapPut(f, k, v) == [x \in DOMAIN f \cup {k} |-> IF x = k THEN v ELSE f[x]]
MapDrop(f, k) == [x \in DOMAIN f \ {k} |-> f[x]]
EmptyMap == [x \in {} |-> <<>>]

----------------------------------------------------------------------------
(* Frames, outcomes and the shared client                                  *)

NoPath == [root |-> "", parts |-> <<>>]

\* the arguments of a call; the fields an operation does not take are blank
Args(bucket, key, dbucket, dkey, lpath, excl) ==
    [bucket |-> bucket, key |-> key, dbucket |-> dbucket, dkey |-> dkey,
     lpath |-> lpath, excl |-> excl]

Frame(fn, a) ==
    [fn |-> fn, a |-> a, pc |-> "enter", keys |-> <<>>, i |-> 0, n |-> 0,
     body |-> <<>>, exc |-> "none"]

\* the exceptions: ValueError("... must not start with /"), the ValueError of
\* Path.relative_to, the backend's exception, and OSError
InvalidArgument == "ValueError: must not start with /"
PathError == "ValueError: not in the subpath"
StorageError == "StorageError"
LocalIOError == "OSError"

Returned(v) == [exc |-> "none", val |-> v]
Raised(x) == [exc |-> x, val |-> <<>>]
None == <<>>

EnvOf(t) == plan[t].env
Top(t) == stack[t][Len(stack[t])]
Running(t, fn, pc) ==
    /\ stack[t] # <<>>
    /\ Top(t).fn = fn
    /\ Top(t).pc = pc

\* the frame on top replaced by f
WithTop(t, f) == [stack EXCEPT ![t] = [@ EXCEPT ![Len(@)] = f]]
\* the frame on top replaced by f, and g called from it
WithCall(t, f, g) == [stack EXCEPT ![t] = Append([@ EXCEPT ![Len(@)] = f], g)]
Popped(t) == [stack EXCEPT ![t] = SubSeq(@, 1, Len(@) - 1)]

\* a backend call of thread t has been sent and not answered
InFlight(t) == stack[t] # <<>> /\ Top(t).pc = "wait"

BackendApis == {"list", "copy", "delete", "get", "put"}
BackendCalls(e) == SelectSeq(effects[e], LAMBDA x : x.api \in BackendApis)

Effect(api, bucket, key, path) ==
    [api |-> api, bucket |-> bucket, key |-> key, path |-> path]
Logged(t, x) == [effects EXCEPT ![EnvOf(t)] = Append(@, x)]

\* a request on the client: an interaction with the backend begins
\* (botocore opens a connection pool on demand, also after close())
Send(t, api, bucket, key) ==
    /\ effects' = Logged(t, Effect(api, bucket, key, NoPath))
    /\ io' = [io EXCEPT ![EnvOf(t)] = @ + 1]
    /\ client' = [client EXCEPT ![EnvOf(t)] = "open"]
    /\ hit' = [hit EXCEPT ![t] = FALSE]
    /\ stack' = WithTop(t, [Top(t) EXCEPT !.pc = "wait", !.n = io[EnvOf(t)] + 1])

\* the answer to the interaction in flight is an error: the backend fails
\* it, or the connection was closed under it and the request was lost
BackendFails(t, lost) == Top(t).n = failAt[EnvOf(t)] \/ (hit[t] /\ lost)
Lost(t) == IF hit[t] THEN BOOLEAN ELSE {FALSE}

\* client.close() on the module-global client: every connection of the
\* process is closed, those of calls other threads have in flight included
ClientClose(t) ==
    /\ client' = [client EXCEPT ![EnvOf(t)] = "closed"]
    /\ hit' = [u \in Threads |->
                 hit[u] \/ (u # t /\ EnvOf(u) = EnvOf(t) /\ InFlight(u))]

\* return v / raise x out of the frame on top
Return(t, v) ==
    /\ stack' = Popped(t)
    /\ outcome' = [outcome EXCEPT ![t] = Returned(v)]
Raise(t, x) ==
    /\ stack' = Popped(t)
    /\ outcome' = [outcome EXCEPT ![t] = Raised(x)]
\* the finally block is left: re-raise the pending exception or return v
Leave(t, v) ==
    IF Top(t).exc # "none" THEN Raise(t, Top(t).exc) ELSE Return(t, v)
\* faulty variant: the exception of the callee is swallowed
Propagate_swallowed(t) == Return(t, None)

\* an exception of the callee passes through a frame without a handler
Propagate(t) ==
    /\ stack' = Popped(t)
    /\ UNCHANGED outcome

----------------------------------------------------------------------------
(* copy_object                                                             *)

\* faulty variant: only the source key is validated
copy_object_invalid_source_only(a) == startswith_slash(a.key)

copy_object_invalid(a) == startswith_slash(a.key) \/ startswith_slash(a.dkey)

copy_object_enter(t) ==
    /\ Running(t, "copy_object", "enter")
    /\ IF copy_object_invalid(Top(t).a)
       THEN Raise(t, InvalidArgument)
       ELSE /\ stack' = WithTop(t, [Top(t) EXCEPT !.pc = "try"])
            /\ UNCHANGED outcome
    /\ UNCHANGED <<inputVars, envVars, task, job, done, hit>>

copy_object_request(t) ==
    /\ Running(t, "copy_object", "try")
    /\ Send(t, "copy", Top(t).a.dbucket, Top(t).a.dkey)
    /\ UNCHANGED <<inputVars, store, fs, outcome, task, job, done>>

copy_object_response(t) ==
    LET e == EnvOf(t)
        a == Top(t).a
        src == <<a.bucket, a.key>>
        dst == <<a.dbucket, a.dkey>>
    IN  /\ Running(t, "copy_object", "wait")
        /\ \E lost \in Lost(t) :
             IF BackendFails(t, lost) \/ src \notin DOMAIN store[e]
             THEN /\ stack' = WithTop(t, [Top(t) EXCEPT !.pc = "finally", !.exc = StorageError])
                  /\ UNCHANGED store
             ELSE /\ stack' = WithTop(t, [Top(t) EXCEPT !.pc = "finally"])
                  /\ store' = [store EXCEPT ![e] = MapPut(@, dst, @[src])]
        /\ UNCHANGED <<inputVars, fs, effects, io, client, outcome, task, job, done, hit>>

copy_object_finally(t) ==
    /\ Running(t, "copy_object", "finally")
    /\ ClientClose(t)
    /\ Leave(t, None)
    /\ UNCHANGED <<inputVars, store, fs, effects, io, task, job, done>>

----------------------------------------------------------------------------
(* delete_object                                                           *)

delete_object_invalid(a) == startswith_slash(a.key)

delete_object_enter(t) ==
    /\ Running(t, "delete_object", "enter")
    /\ IF delete_object_invalid(Top(t).a)
       THEN Raise(t, InvalidArgument)
       ELSE /\ stack' = WithTop(t, [Top(t) EXCEPT !.pc = "try"])
            /\ UNCHANGED outcome
    /\ UNCHANGED <<inputVars, envVars, task, job, done, hit>>

delete_object_request(t) ==
    /\ Running(t, "delete_object", "try")
    /\ Send(t, "delete", Top(t).a.bucket, Top(t).a.key)
    /\ UNCHANGED <<inputVars, store, fs, outcome, task, job, done>>

\* the backend deletes the object; deleting a missing key is no error
delete_object_response(t) ==
    LET e == EnvOf(t)
        a == Top(t).a
    IN  /\ Running(t, "delete_object", "wait")
        /\ \E lost \in Lost(t) :
             IF BackendFails(t, lost)
             THEN /\ stack' = WithTop(t, [Top(t) EXCEPT !.pc = "finally", !.exc = StorageError])
                  /\ UNCHANGED store
             ELSE /\ stack' = WithTop(t, [Top(t) EXCEPT !.pc = "finally"])
                  /\ store' = [store EXCEPT ![e] = MapDrop(@, <<a.bucket, a.key>>)]
        /\ UNCHANGED <<inputVars, fs, effects, io, client, outcome, task, job, done, hit>>

delete_object_finally(t) ==
    /\ Running(t, "delete_object", "finally")
    /\ ClientClose(t)
    /\ Leave(t, None)
    /\ UNCHANGED <<inputVars, store, fs, effects, io, task, job, done>>

----------------------------------------------------------------------------
(* move_object                                                             *)

move_object_invalid(a) == startswith_slash(a.key) \/ startswith_slash(a.dkey)

\* faulty variant: the destination is deleted instead of the source
move_object_delete_args_destination(a) == Args(a.dbucket, a.dkey, "", <<>>, NoPath, FALSE)

\* the arguments move_object hands to copy_object and to delete_object
move_object_copy_args(a) == Args(a.bucket, a.key, a.dbucket, a.dkey, NoPath, FALSE)
move_object_delete_args(a) == Args(a.bucket, a.key, "", <<>>, NoPath, FALSE)

move_object_enter(t) ==
    /\ Running(t, "move_object", "enter")
    /\ IF move_object_invalid(Top(t).a)
       THEN Raise(t, InvalidArgument)
       ELSE /\ stack' = WithCall(t, [Top(t) EXCEPT !.pc = "copied"],
                                 Frame("copy_object", move_object_copy_args(Top(t).a)))
            /\ UNCHANGED outcome
    /\ UNCHANGED <<inputVars, envVars, task, job, done, hit>>

move_object_copied(t) ==
    /\ Running(t, "move_object", "copied")
    /\ IF outcome[t].exc # "none"
       THEN Propagate(t)
       ELSE /\ stack' = WithCall(t, [Top(t) EXCEPT !.pc = "deleted"],
                                 Frame("delete_object", move_object_delete_args(Top(t).a)))
            /\ UNCHANGED outcome
    /\ UNCHANGED <<inputVars, envVars, task, job, done, hit>>

move_object_deleted(t) ==
    /\ Running(t, "move_object", "deleted")
    /\ IF outcome[t].exc # "none" THEN Propagate(t) ELSE Return(t, None)
    /\ UNCHANGED <<inputVars, envVars, task, job, done, hit>>

----------------------------------------------------------------------------
(* list_object_keys                                                        *)

list_object_keys_invalid(a) == startswith_slash(a.key)

\* result.get("Contents", [])
PageContents(page) == IF page.has THEN page.keys ELSE <<>>

\* faulty variant: the folder markers are removed whatever exclude_folders says
ExcludeFolders_always(excl, keys) == SelectSeq(keys, LAMBDA k : ~endswith_slash(k))

\* filter(lambda x: not x.endswith("/"), object_keys) when exclude_folders
ExcludeFolders(excl, keys) ==
    IF excl THEN SelectSeq(keys, LAMBDA k : ~endswith_slash(k)) ELSE keys

\* the paginator has a further page to fetch
MorePages(t) == Top(t).i < Len(pages[EnvOf(t)])

list_object_keys_enter(t) ==
    /\ Running(t, "list_object_keys", "enter")
    /\ IF list_object_keys_invalid(Top(t).a)
       THEN Raise(t, InvalidArgument)
       ELSE /\ stack' = WithTop(t, [Top(t) EXCEPT !.pc = "iter"])
            /\ UNCHANGED outcome
    /\ UNCHANGED <<inputVars, envVars, task, job, done, hit>>

list_object_keys_request(t) ==
    /\ Running(t, "list_object_keys", "iter")
    /\ MorePages(t)
    /\ Send(t, "list", Top(t).a.bucket, Top(t).a.key)
    /\ UNCHANGED <<inputVars, store, fs, outcome, task, job, done>>

list_object_keys_response(t) ==
    LET e == EnvOf(t)
        f == Top(t)
    IN  /\ Running(t, "list_object_keys", "wait")
        /\ \E lost \in Lost(t) :
             IF BackendFails(t, lost)
             THEN stack' = WithTop(t, [f EXCEPT !.pc = "finally", !.exc = StorageError])
             ELSE stack' = WithTop(t, [f EXCEPT !.pc = "iter", !.i = f.i + 1,
                                         !.keys = f.keys \o PageContents(pages[e][f.i + 1])])
        /\ UNCHANGED <<inputVars, envVars, outcome, task, job, done, hit>>

list_object_keys_finally(t) ==
    /\ \/ Running(t, "list_object_keys", "finally")
       \/ Running(t, "list_object_keys", "iter") /\ ~MorePages(t)
    /\ ClientClose(t)
    /\ Leave(t, ExcludeFolders(Top(t).a.excl, Top(t).keys))
    /\ UNCHANGED <<inputVars, store, fs, effects, io, task, job, done>>

----------------------------------------------------------------------------
(* The local filesystem                                                    *)

FileNode(data) == [kind |-> "file", data |-> data]
DirNode == [kind |-> "dir", data |-> <<>>]

Exists(e, p) == p \in DOMAIN fs[e]
IsDir(e, p) == (p.parts = <<>>) \/ (Exists(e, p) /\ fs[e][p].kind = "dir")
\* Path.is_file()
IsFile(e, p) == Exists(e, p) /\ fs[e][p].kind = "file"

\* os.makedirs(d, exist_ok=True) raises: d is the empty path (mkdir("")
\* is ENOENT), or d or one of its ancestors exists and is no directory
MakedirsFails(e, d) ==
    \/ d.root = "" /\ d.parts = <<>>
    \/ \E q \in Ancestors(d) : Exists(e, q) /\ fs[e][q].kind # "dir"

\* the filesystem after os.makedirs(d, exist_ok=True)
Makedirs(f, d) == [x \in DOMAIN f \cup Ancestors(d) |-> IF x \in DOMAIN f THEN f[x] ELSE DirNode]

\* open(p, "wb") raises: p is a directory
OpenWriteFails(e, p) == IsDir(e, p)

----------------------------------------------------------------------------
(* download_object                                                         *)

download_object_invalid(a) == startswith_slash(a.key)

Min(x, y) == IF x < y THEN x ELSE y

download_object_enter(t) ==
    /\ Running(t, "download_object", "enter")
    /\ IF download_object_invalid(Top(t).a)
       THEN Raise(t, InvalidArgument)
       ELSE /\ stack' = WithTop(t, [Top(t) EXCEPT !.pc = "try"])
            /\ UNCHANGED outcome
    /\ UNCHANGED <<inputVars, envVars, task, job, done, hit>>

download_object_request(t) ==
    /\ Running(t, "download_object", "try")
    /\ Send(t, "get", Top(t).a.bucket, Top(t).a.key)
    /\ UNCHANGED <<inputVars, store, fs, outcome, task, job, done>>

\* client.get_object answers with the body to stream, or fails
download_object_response(t) ==
    LET e == EnvOf(t)
        f == Top(t)
        obj == <<f.a.bucket, f.a.key>>
    IN  /\ Running(t, "download_object", "wait")
        /\ \E lost \in Lost(t) :
             IF BackendFails(t, lost) \/ obj \notin DOMAIN store[e]
             THEN stack' = WithTop(t, [f EXCEPT !.pc = "finally", !.exc = StorageError])
             ELSE stack' = WithTop(t, [f EXCEPT !.pc = "makedirs", !.body = store[e][obj]])
        /\ UNCHANGED <<inputVars, envVars, outcome, task, job, done, hit>>

\* os.makedirs(os.path.dirname(local_path), exist_ok=True)
download_object_makedirs(t) ==
    LET e == EnvOf(t)
        f == Top(t)
        d == Dirname(f.a.lpath)
    IN  /\ Running(t, "download_object", "makedirs")
        /\ IF MakedirsFails(e, d)
           THEN /\ stack' = WithTop(t, [f EXCEPT !.pc = "finally", !.exc = LocalIOError])
                /\ UNCHANGED <<fs, effects>>
           ELSE /\ stack' = WithTop(t, [f EXCEPT !.pc = "open"])
                /\ fs' = [fs EXCEPT ![e] = Makedirs(@, d)]
                /\ effects' = Logged(t, Effect("makedirs", "", <<>>, d))
        /\ UNCHANGED <<inputVars, store, io, client, outcome, task, job, done, hit>>

\* open(local_path, "wb"): the file is created, or truncated if it exists
download_object_open(t) ==
    LET e == EnvOf(t)
        f == Top(t)
    IN  /\ Running(t, "download_object", "open")
        /\ IF OpenWriteFails(e, f.a.lpath)
           THEN /\ stack' = WithTop(t, [f EXCEPT !.pc = "finally", !.exc = LocalIOError])
                /\ UNCHANGED <<fs, effects>>
           ELSE /\ stack' = WithTop(t, [f EXCEPT !.pc = "chunks", !.i = 0])
                /\ fs' = [fs EXCEPT ![e] = MapPut(@, f.a.lpath, FileNode(<<>>))]
                /\ effects' = Logged(t, Effect("open_wb", "", <<>>, f.a.lpath))
        /\ UNCHANGED <<inputVars, store, io, client, outcome, task, job, done, hit>>

\* one round of "for chunk in response['Body'].iter_chunks(): f.write(chunk)":
\* the next chunk is read from the backend and appended to the file
download_object_chunk(t) ==
    LET e == EnvOf(t)
        f == Top(t)
        upto == Min(f.i + chunk[e], Len(f.body))
    IN  /\ Running(t, "download_object", "chunks")
        /\ f.i < Len(f.body)
        /\ io' = [io EXCEPT ![e] = @ + 1]
        /\ IF io[e] + 1 = failAt[e]
           THEN /\ stack' = WithTop(t, [f EXCEPT !.pc = "finally", !.exc = StorageError])
                /\ UNCHANGED <<fs, effects>>
           ELSE /\ stack' = WithTop(t, [f EXCEPT !.i = upto])
                /\ fs' = [fs EXCEPT ![e][f.a.lpath].data = @ \o SubSeq(f.body, f.i + 1, upto)]
                /\ effects' = Logged(t, Effect("write", "", <<>>, f.a.lpath))
        /\ UNCHANGED <<inputVars, store, client, outcome, task, job, done, hit>>

download_object_finally(t) ==
    /\ \/ Running(t, "download_object", "finally")
       \/ Running(t, "download_object", "chunks") /\ Top(t).i >= Len(Top(t).body)
    /\ ClientClose(t)
    /\ Leave(t, None)
    /\ UNCHANGED <<inputVars, store, fs, effects, io, task, job, done>>

----------------------------------------------------------------------------
(* put_object                                                              *)

put_object_invalid(a) == startswith_slash(a.key)

put_object_enter(t) ==
    /\ Running(t, "put_object", "enter")
    /\ IF put_object_invalid(Top(t).a)
       THEN Raise(t, InvalidArgument)
       ELSE /\ stack' = WithTop(t, [Top(t) EXCEPT !.pc = "try"])
            /\ UNCHANGED outcome
    /\ UNCHANGED <<inputVars, envVars, task, job, done, hit>>

\* with open(local_path, "rb") as f: file_data = f.read()
put_object_read(t) ==
    LET e == EnvOf(t)
        f == Top(t)
    IN  /\ Running(t, "put_object", "try")
        /\ IF ~IsFile(e, f.a.lpath)
           THEN /\ stack' = WithTop(t, [f EXCEPT !.pc = "finally", !.exc = LocalIOError])
                /\ UNCHANGED effects
           ELSE /\ stack' = WithTop(t, [f EXCEPT !.pc = "send", !.body = fs[e][f.a.lpath].data])
                /\ effects' = Logged(t, Effect("read", "", <<>>, f.a.lpath))
        /\ UNCHANGED <<inputVars, store, fs, io, client, outcome, task, job, done, hit>>

put_object_request(t) ==
    /\ Running(t, "put_object", "send")
    /\ Send(t, "put", Top(t).a.bucket, Top(t).a.key)
    /\ UNCHANGED <<inputVars, store, fs, outcome, task, job, done>>

put_object_response(t) ==
    LET e == EnvOf(t)
        f == Top(t)
    IN  /\ Running(t, "put_object", "wait")
        /\ \E lost \in Lost(t) :
             IF BackendFails(t, lost)
             THEN /\ stack' = WithTop(t, [f EXCEPT !.pc = "finally", !.exc = StorageError])
                  /\ UNCHANGED store
             ELSE /\ stack' = WithTop(t, [f EXCEPT !.pc = "finally"])
                  /\ store' = [store EXCEPT ![e] = MapPut(@, <<f.a.bucket, f.a.key>>, f.body)]
        /\ UNCHANGED <<inputVars, fs, effects, io, client, outcome, task, job, done, hit>>

put_object_finally(t) ==
    /\ Running(t, "put_object", "finally")
    /\ ClientClose(t)
    /\ Leave(t, None)
    /\ UNCHANGED <<inputVars, store, fs, effects, io, task, job, done>>

----------------------------------------------------------------------------
(* download_folder                                                         *)

download_folder_invalid(a) == startswith_slash(a.key)

\* list_object_keys(bucket_name, prefix): exclude_folders keeps its default
download_folder_list_args(a) == Args(a.bucket, a.key, "", <<>>, NoPath, TRUE)

\* local_path / Path(object_key).relative_to(prefix)
DestLocalPath(a, object_key) ==
    JoinPath(a.lpath, RelativeTo(PurePath(object_key), PurePath(a.key)))

download_folder_download_args(a, object_key) ==
    Args(a.bucket, object_key, "", <<>>, DestLocalPath(a, object_key), FALSE)

download_folder_enter(t) ==
    /\ Running(t, "download_folder", "enter")
    /\ IF download_folder_invalid(Top(t).a)
       THEN Raise(t, InvalidArgument)
       ELSE /\ stack' = WithCall(t, [Top(t) EXCEPT !.pc = "listed"],
                                 Frame("list_object_keys", download_folder_list_args(Top(t).a)))
            /\ UNCHANGED outcome
    /\ UNCHANGED <<inputVars, envVars, task, job, done, hit>>

download_folder_listed(t) ==
    /\ Running(t, "download_folder", "listed")
    /\ IF outcome[t].exc # "none"
       THEN Propagate(t)
       ELSE /\ stack' = WithTop(t, [Top(t) EXCEPT !.pc = "loop", !.keys = outcome[t].val, !.i = 0])
            /\ UNCHANGED outcome
    /\ UNCHANGED <<inputVars, envVars, task, job, done, hit>>

\* one round of "for object_key in object_keys", up to the call of
\* download_object; the end of the loop returns
download_folder_loop(t) ==
    LET f == Top(t)
        object_key == f.keys[f.i + 1]
    IN  /\ Running(t, "download_folder", "loop")
        /\ IF f.i = Len(f.keys)
           THEN Return(t, None)
           ELSE IF endswith_slash(object_key)
           THEN /\ stack' = WithTop(t, [f EXCEPT !.i = f.i + 1])
                /\ UNCHANGED outcome
           ELSE IF RelativeToFails(PurePath(object_key), PurePath(f.a.key))
           THEN Raise(t, PathError)
           ELSE /\ stack' = WithCall(t, [f EXCEPT !.pc = "downloaded", !.i = f.i + 1],
                                     Frame("download_object",
                                           download_folder_download_args(f.a, object_key)))
                /\ UNCHANGED outcome
        /\ UNCHANGED <<inputVars, envVars, task, job, done, hit>>

download_folder_downloaded(t) ==
    /\ Running(t, "download_folder", "downloaded")
    /\ IF outcome[t].exc # "none"
       THEN Propagate(t)
       ELSE /\ stack' = WithTop(t, [Top(t) EXCEPT !.pc = "loop"])
            /\ UNCHANGED outcome
    /\ UNCHANGED <<inputVars, envVars, task, job, done, hit>>

----------------------------------------------------------------------------
(* put_folder                                                              *)

put_folder_invalid(a) == startswith_slash(a.key)

\* the entries of directory d, in the order the directory scan yields them
Children(e, d) ==
    SelectSeq([j \in 1..Len(walk[e]) |-> JoinPath(d, [root |-> "", parts |-> <<walk[e][j]>>])],
              LAMBDA p : Exists(e, p))

RECURSIVE Flatten(_)
Flatten(ss) == IF ss = <<>> THEN <<>> ELSE Head(ss) \o Flatten(Tail(ss))

\* local_path.rglob("*"): the entries of the directory, then those of each
\* of its subdirectories, recursively; nothing when d is no directory
RECURSIVE RGlob(_, _)
RGlob(e, d) ==
    IF ~(Exists(e, d) /\ fs[e][d].kind = "dir") THEN <<>>
    ELSE LET cs == Children(e, d)
         IN  cs \o Flatten([j \in 1..Len(cs) |-> RGlob(e, cs[j])])

\* faulty variant: the key is built from the whole local path
S3Key_not_relative(prefix, local_path, local_file_path) ==
    PathStr(JoinPath(PurePath(prefix), local_file_path))

\* str(Path(prefix) / local_file_path.relative_to(local_path))
S3Key(prefix, local_path, local_file_path) ==
    PathStr(JoinPath(PurePath(prefix), RelativeTo(local_file_path, local_path)))

put_folder_put_args(a, local_file_path) ==
    Args(a.bucket, S3Key(a.key, a.lpath, local_file_path), "", <<>>, local_file_path, FALSE)

put_folder_enter(t) ==
    /\ Running(t, "put_folder", "enter")
    /\ IF put_folder_invalid(Top(t).a)
       THEN Raise(t, InvalidArgument)
       ELSE /\ stack' = WithTop(t, [Top(t) EXCEPT !.pc = "loop", !.i = 0,
                                                  !.keys = RGlob(EnvOf(t), Top(t).a.lpath)])
            /\ UNCHANGED outcome
    /\ UNCHANGED <<inputVars, envVars, task, job, done, hit>>

\* one round of "for local_file_path in local_path.rglob('*')", up to the
\* call of put_object; the end of the loop returns
put_folder_loop(t) ==
    LET f == Top(t)
        local_file_path == f.keys[f.i + 1]
    IN  /\ Running(t, "put_folder", "loop")
        /\ IF f.i = Len(f.keys)
           THEN Return(t, None)
           ELSE IF ~IsFile(EnvOf(t), local_file_path)
           THEN /\ stack' = WithTop(t, [f EXCEPT !.i = f.i + 1])
                /\ UNCHANGED outcome
           ELSE /\ stack' = WithCall(t, [f EXCEPT !.pc = "uploaded", !.i = f.i + 1],
                                     Frame("put_object", put_folder_put_args(f.a, local_file_path)))
                /\ UNCHANGED outcome
        /\ UNCHANGED <<inputVars, envVars, task, job, done, hit>>

put_folder_uploaded(t) ==
    /\ Running(t, "put_folder", "uploaded")
    /\ IF outcome[t].exc # "none"
       THEN Propagate(t)
       ELSE /\ stack' = WithTop(t, [Top(t) EXCEPT !.pc = "loop"])
            /\ UNCHANGED outcome
    /\ UNCHANGED <<inputVars, envVars, task, job, done, hit>>

----------------------------------------------------------------------------
(* The asynchronous variants                                               *)

SyncFns == {"list_object_keys", "copy_object", "delete_object", "move_object",
            "download_object", "download_folder", "put_object", "put_folder"}

\* what each asynchronous variant hands to run_in_executor: the function
\* and its keyword arguments
alist_object_keys(a) == [fn |-> "list_object_keys", a |-> a]
acopy_object(a) == [fn |-> "copy_object", a |-> a]
adelete_object(a) == [fn |-> "delete_object", a |-> a]
\* faulty variant: amove_object hands copy_object to the executor
amove_object_copies_only(a) == [fn |-> "copy_object", a |-> a]
amove_object(a) == [fn |-> "move_object", a |-> a]
adownload_object(a) == [fn |-> "download_object", a |-> a]
adownload_folder(a) == [fn |-> "download_folder", a |-> a]
aput_object(a) == [fn |-> "put_object", a |-> a]
aput_folder(a) == [fn |-> "put_folder", a |-> a]

AsyncJob(fn, a) ==
    CASE fn = "alist_object_keys" -> alist_object_keys(a)
      [] fn = "acopy_object" -> acopy_object(a)
      [] fn = "adelete_object" -> adelete_object(a)
      [] fn = "amove_object" -> amove_object(a)
      [] fn = "adownload_object" -> adownload_object(a)
      [] fn = "adownload_folder" -> adownload_folder(a)
      [] fn = "aput_object" -> aput_object(a)
      [] fn = "aput_folder" -> aput_folder(a)

AsyncFns == {"alist_object_keys", "acopy_object", "adelete_object", "amove_object",
             "adownload_object", "adownload_folder", "aput_object", "aput_folder"}

----------------------------------------------------------------------------
(* The callers                                                             *)

\* the call the caller makes next; a caller stops at the first exception
NextCall(t) == plan[t].calls[Len(done[t]) + 1]
Halted(t) == done[t] # <<>> /\ done[t][Len(done[t])].exc # "none"
Finished(t) == task[t] = "idle" /\ (Halted(t) \/ Len(done[t]) = Len(plan[t].calls))
CanCall(t) ==
    /\ task[t] = "idle"
    /\ ~Finished(t)
    /\ \A u \in plan[t].after : Finished(u)

\* a synchronous operation is called on the caller's own thread
Call(t) ==
    /\ CanCall(t)
    /\ NextCall(t).fn \in SyncFns
    /\ stack' = [stack EXCEPT ![t] = <<Frame(NextCall(t).fn, NextCall(t).a)>>]
    /\ task' = [task EXCEPT ![t] = "sync"]
    /\ UNCHANGED <<inputVars, envVars, outcome, job, done, hit>>

\* ... and returns or raises to the caller
CallReturns(t) ==
    /\ task[t] = "sync"
    /\ stack[t] = <<>>
    /\ done' = [done EXCEPT ![t] = Append(@, outcome[t])]
    /\ task' = [task EXCEPT ![t] = "idle"]
    /\ UNCHANGED <<inputVars, envVars, stack, outcome, job, hit>>

\* an asynchronous variant is awaited: the job goes to the executor and the
\* calling task is suspended
AsyncCall(t) ==
    /\ CanCall(t)
    /\ NextCall(t).fn \in AsyncFns
    /\ job' = [job EXCEPT ![t] = AsyncJob(NextCall(t).fn, NextCall(t).a)]
    /\ task' = [task EXCEPT ![t] = "queued"]
    /\ UNCHANGED <<inputVars, envVars, stack, outcome, done, hit>>

\* asyncable.run_in_executor: a worker of the executor runs func(**kwargs)
run_in_executor_start(t) ==
    /\ task[t] = "queued"
    /\ stack' = [stack EXCEPT ![t] = <<Frame(job[t].fn, job[t].a)>>]
    /\ task' = [task EXCEPT ![t] = "worker"]
    /\ UNCHANGED <<inputVars, envVars, outcome, job, done, hit>>

\* ... the worker completes the future with what the function returned or
\* raised
run_in_executor_finish(t) ==
    /\ task[t] = "worker"
    /\ stack[t] = <<>>
    /\ task' = [task EXCEPT ![t] = "future"]
    /\ UNCHANGED <<inputVars, envVars, stack, outcome, job, done, hit>>

\* ... and the awaiting task resumes with the result or the exception
AsyncResumes(t) ==
    /\ task[t] = "future"
    /\ done' = [done EXCEPT ![t] = Append(@, outcome[t])]
    /\ task' = [task EXCEPT ![t] = "idle"]
    /\ UNCHANGED <<inputVars, envVars, stack, outcome, job, hit>>

----------------------------------------------------------------------------
(* Inputs: the calls made, and the environment they run in                 *)

MaxPages == 2      \* pages the backend answers a listing with
MaxFailAt == 6     \* the latest backend interaction that may fail
MaxChunk == 2      \* bytes per chunk of a streamed body

FailPoints == 0..MaxFailAt

Rel(parts) == [root |-> "", parts |-> parts]
Abs(parts) == [root |-> "/", parts |-> parts]

Page(keys) == [has |-> TRUE, keys |-> keys]
NoContents == [has |-> FALSE, keys |-> <<>>]

RECURSIVE SeqsUpTo(_, _)
\* the sequences over S of length at most n
SeqsUpTo(S, n) ==
    IF n = 0 THEN {<<>>}
    ELSE LET shorter == SeqsUpTo(S, n - 1)
         IN  shorter \cup {Append(q, x) : q \in {r \in shorter : Len(r) = n - 1}, x \in S}

Input(calls, pgs, ch, fa, wk, st, files) ==
    [calls |-> calls, pages |-> pgs, chunk |-> ch, failAt |-> fa, walk |-> wk,
     store |-> st, fs |-> files]

CallOf(fn, a) == [fn |-> fn, a |-> a]

\* copy, delete and move between two buckets, of keys "a", "b" and "/a";
\* the source and the destination exist or not
CopyKeys == {<<"a">>, <<"b">>, <<"/", "a">>}
CopyBuckets == {"b1", "b2"}
SeedStore(objs, src) == [o \in objs |-> IF o = src THEN <<1>> ELSE <<2>>]

CopyInputsOf(b, k, db, dk) ==
    {Input(<<CallOf(fn, Args(b, k, db, dk, NoPath, FALSE))>>, <<>>, 1, fa, <<>>,
           SeedStore(objs, <<b, k>>), EmptyMap) :
        fn \in {"copy_object", "move_object"},
        objs \in SUBSET {<<b, k>>, <<db, dk>>}, fa \in FailPoints}

CopyInputs ==
    UNION {CopyInputsOf(b, k, db, dk) :
             b \in CopyBuckets, k \in CopyKeys, db \in CopyBuckets, dk \in CopyKeys}

DeleteInputsOf(b, k) ==
    {Input(<<CallOf("delete_object", Args(b, k, "", <<>>, NoPath, FALSE))>>, <<>>, 1, fa, <<>>,
           SeedStore(objs, <<b, k>>), EmptyMap) :
        objs \in SUBSET {<<b, k>>}, fa \in FailPoints}

DeleteInputs == UNION {DeleteInputsOf(b, k) : b \in CopyBuckets, k \in CopyKeys}

\* listings: the backend answers with up to MaxPages pages, each without
\* "Contents", empty, or holding keys, folder markers among them
ListPages ==
    {NoContents, Page(<<>>), Page(<<<<"a", "/", "b">>>>), Page(<<<<"a", "/">>, <<"a", "b">>>>),
     Page(<<<<"a", "/", "b">>, <<"a", "/">>>>)}
ListPrefixes == {<<>>, <<"a">>, <<"/", "a">>}

ListInputs ==
    {Input(<<CallOf("list_object_keys", Args("b1", prefix, "", <<>>, NoPath, excl))>>,
           pgs, 1, fa, <<>>, EmptyMap, EmptyMap) :
        prefix \in ListPrefixes, excl \in BOOLEAN,
        pgs \in SeqsUpTo(ListPages, MaxPages), fa \in FailPoints}

\* single objects: a local file is uploaded and downloaded again, to a bare
\* file name, into a directory to create, or to an absolute path; the
\* destination does not exist, is a file or is a directory
Contents == {<<>>, <<0>>, <<0, 1>>, <<1, 0, 1>>}
ObjKeys == {<<"a">>, <<"/", "a">>}
SrcPath == Rel(<<<<"s">>>>)
DstPaths == {Rel(<<<<"o">>>>), Rel(<<<<"d">>, <<"o">>>>), Abs(<<<<"o">>>>)}
DstNodes == {"none", "file", "dir"}
\* the file to upload: missing, or there with some content
SrcFiles == {[has |-> FALSE, data |-> <<>>]} \cup {[has |-> TRUE, data |-> c] : c \in Contents}

ObjFs(src, dst, dstNode) ==
    LET f0 == IF src.has THEN MapPut(EmptyMap, SrcPath, FileNode(src.data)) ELSE EmptyMap
    IN  IF dstNode = "file" THEN MapPut(f0, dst, FileNode(<<9, 9>>))
        ELSE IF dstNode = "dir" THEN MapPut(f0, dst, DirNode)
        ELSE f0

RoundTripInputs ==
    {Input(<<CallOf("put_object", Args("b1", k, "", <<>>, SrcPath, FALSE)),
             CallOf("download_object", Args("b1", k, "", <<>>, dst, FALSE))>>,
           <<>>, ch, fa, <<>>, st, ObjFs(src, dst, dstNode)) :
        k \in ObjKeys, src \in SrcFiles, dst \in DstPaths,
        dstNode \in DstNodes, ch \in 1..MaxChunk, fa \in FailPoints,
        st \in {EmptyMap, MapPut(EmptyMap, <<"b1", <<"a">>>>, <<7>>)}}

DownloadInputs ==
    {Input(<<CallOf("download_object", Args("b1", k, "", <<>>, Rel(<<<<"d">>, <<"o">>>>), FALSE))>>,
           <<>>, ch, fa, <<>>, st, EmptyMap) :
        k \in ObjKeys, ch \in 1..MaxChunk, fa \in FailPoints,
        st \in {EmptyMap, MapPut(EmptyMap, <<"b1", <<"a">>>>, <<0, 1, 0>>)}}

\* folders to download: the backend lists, one key a page, keys that have
\* the prefix as a leading string
FolderKeys == {<<"a", "/">>, <<"a", "/", "b">>, <<"a", "b">>, <<"a", "/", "b", "/", "c">>}
FolderPrefixes == {<<"a">>, <<"a", "/">>, <<"/", "a">>}
FolderPages(prefix) ==
    {NoContents} \cup {Page(<<k>>) : k \in {x \in FolderKeys : StartsWith(x, prefix)}}
FolderDest == Rel(<<<<"d">>>>)
FolderFs == {EmptyMap, MapPut(EmptyMap, JoinPath(FolderDest, Rel(<<<<"b">>>>)), FileNode(<<9>>))}
FolderStore == [o \in {<<"b1", k>> : k \in FolderKeys} |-> <<Len(o[2])>>]

\* a listing names each key once
Distinct(pgs) ==
    \A i, j \in 1..Len(pgs) : (i # j /\ pgs[i].has /\ pgs[j].has) => pgs[i].keys # pgs[j].keys

DownloadFolderInputsOf(prefix) ==
    {Input(<<CallOf("download_folder", Args("b1", prefix, "", <<>>, FolderDest, FALSE))>>,
           pgs, ch, fa, <<>>, FolderStore, files) :
        pgs \in {q \in SeqsUpTo(FolderPages(prefix), MaxPages) : Distinct(q)},
        ch \in 1..MaxChunk, fa \in FailPoints, files \in FolderFs}

DownloadFolderInputs == UNION {DownloadFolderInputsOf(prefix) : prefix \in FolderPrefixes}

\* folders to upload: under the directory r, a file a, a directory s with a
\* file b, and a fifo p, each there or not; r itself may be missing
TreeRoot == Rel(<<<<"r">>>>)
TreeEntry(parts) == JoinPath(TreeRoot, Rel(parts))
Trees ==
    {EmptyMap} \cup
    {[p \in {TreeRoot} \cup ents |->
        IF p = TreeEntry(<<<<"a">>>>) THEN FileNode(<<0>>)
        ELSE IF p = TreeEntry(<<<<"s">>, <<"b">>>>) THEN FileNode(<<1>>)
        ELSE IF p = TreeEntry(<<<<"p">>>>) THEN [kind |-> "other", data |-> <<>>]
        ELSE DirNode] :
      ents \in {x \in SUBSET {TreeEntry(<<<<"a">>>>), TreeEntry(<<<<"s">>>>),
                               TreeEntry(<<<<"s">>, <<"b">>>>), TreeEntry(<<<<"p">>>>)} :
                  TreeEntry(<<<<"s">>, <<"b">>>>) \in x => TreeEntry(<<<<"s">>>>) \in x}}
ScanOrders == {<<<<"a">>, <<"b">>, <<"p">>, <<"s">>>>, <<<<"s">>, <<"p">>, <<"b">>, <<"a">>>>}
UploadPrefixes == {<<"u">>, <<"u", "/">>, <<>>, <<"/", "u">>}

PutFolderInputs ==
    {Input(<<CallOf("put_folder", Args("b1", prefix, "", <<>>, TreeRoot, FALSE))>>,
           <<>>, 1, fa, wk, EmptyMap, tree) :
        prefix \in UploadPrefixes, tree \in Trees, wk \in ScanOrders, fa \in FailPoints}

Inputs ==
    CopyInputs \cup DeleteInputs \cup ListInputs \cup RoundTripInputs \cup DownloadInputs
    \cup DownloadFolderInputs \cup PutFolderInputs

\* the asynchronous variant of a synchronous operation
AsyncName(fn) ==
    CASE fn = "list_object_keys" -> "alist_object_keys"
      [] fn = "copy_object" -> "acopy_object"
      [] fn = "delete_object" -> "adelete_object"
      [] fn = "move_object" -> "amove_object"
      [] fn = "download_object" -> "adownload_object"
      [] fn = "download_folder" -> "adownload_folder"
      [] fn = "put_object" -> "aput_object"
      [] fn = "put_folder" -> "aput_folder"

AsyncCalls(calls) == [j \in 1..Len(calls) |-> CallOf(AsyncName(calls[j].fn), calls[j].a)]

BlankArgs == Args("", <<>>, "", <<>>, NoPath, FALSE)

\* nothing has run: the client was created at import, no call was made
Fresh ==
    /\ effects = [e \in Envs |-> <<>>]
    /\ io = [e \in Envs |-> 0]
    /\ client = [e \in Envs |-> "open"]
    /\ stack = [t \in Threads |-> <<>>]
    /\ outcome = [t \in Threads |-> Returned(None)]
    /\ task = [t \in Threads |-> "idle"]
    /\ job = [t \in Threads |-> CallOf("", BlankArgs)]
    /\ done = [t \in Threads |-> <<>>]
    /\ hit = [t \in Threads |-> FALSE]

Environment(x) ==
    /\ pages = [e \in Envs |-> x.pages]
    /\ chunk = [e \in Envs |-> x.chunk]
    /\ failAt = [e \in Envs |-> x.failAt]
    /\ walk = [e \in Envs |-> x.walk]
    /\ store = [e \in Envs |-> x.store]
    /\ fs = [e \in Envs |-> x.fs]

\* Thread 1 makes the calls synchronously in environment e1; then thread 2
\* awaits the asynchronous variants of the same calls in e2, which starts
\* out identical to e1.
Init ==
    \E x \in Inputs :
        /\ plan = [t \in Threads |->
                     IF t = 1 THEN [env |-> "e1", after |-> {}, calls |-> x.calls]
                     ELSE [env |-> "e2", after |-> {1}, calls |-> AsyncCalls(x.calls)]]
        /\ Environment(x)
        /\ Fresh

Step(t) ==
    \/ Call(t) \/ CallReturns(t)
    \/ AsyncCall(t) \/ run_in_executor_start(t) \/ run_in_executor_finish(t) \/ AsyncResumes(t)
    \/ list_object_keys_enter(t) \/ list_object_keys_request(t)
    \/ list_object_keys_response(t) \/ list_object_keys_finally(t)
    \/ copy_object_enter(t) \/ copy_object_request(t)
    \/ copy_object_response(t) \/ copy_object_finally(t)
    \/ delete_object_enter(t) \/ delete_object_request(t)
    \/ delete_object_response(t) \/ delete_object_finally(t)
    \/ move_object_enter(t) \/ move_object_copied(t) \/ move_object_deleted(t)
    \/ download_object_enter(t) \/ download_object_request(t) \/ download_object_response(t)
    \/ download_object_makedirs(t) \/ download_object_open(t) \/ download_object_chunk(t)
    \/ download_object_finally(t)
    \/ download_folder_enter(t) \/ download_folder_listed(t) \/ download_folder_loop(t)
    \/ download_folder_downloaded(t)
    \/ put_object_enter(t) \/ put_object_read(t) \/ put_object_request(t)
    \/ put_object_response(t) \/ put_object_finally(t)
    \/ put_folder_enter(t) \/ put_folder_loop(t) \/ put_folder_uploaded(t)

Next == \E t \in Threads : Step(t)

Spec == Init /\ [][Next]_vars

----------------------------------------------------------------------------
(* Two workers of one process                                              *)

ConcCalls ==
    {CallOf("acopy_object", Args("b1", <<"a">>, "b1", <<"b">>, NoPath, FALSE)),
     CallOf("adelete_object", Args("b1", <<"a">>, "", <<>>, NoPath, FALSE)),
     CallOf("amove_object", Args("b1", <<"a">>, "b2", <<"a">>, NoPath, FALSE))}

\* Two tasks of one process each await an asynchronous operation; the
\* executor runs the two on distinct workers, which share the client of e1.
ConcInit ==
    \E c1 \in ConcCalls, c2 \in ConcCalls, fa \in FailPoints,
       st \in {EmptyMap, MapPut(EmptyMap, <<"b1", <<"a">>>>, <<1>>)} :
        /\ plan = [t \in Threads |->
                     [env |-> "e1", after |-> {}, calls |-> IF t = 1 THEN <<c1>> ELSE <<c2>>]]
        /\ Environment(Input(<<>>, <<>>, 1, fa, <<>>, st, EmptyMap))
        /\ Fresh

ConcStep(t) ==
    \/ AsyncCall(t) \/ run_in_executor_start(t) \/ run_in_executor_finish(t) \/ AsyncResumes(t)
    \/ copy_object_enter(t) \/ copy_object_request(t)
    \/ copy_object_response(t) \/ copy_object_finally(t)
    \/ delete_object_enter(t) \/ delete_object_request(t)
    \/ delete_object_response(t) \/ delete_object_finally(t)
    \/ move_object_enter(t) \/ move_object_copied(t) \/ move_object_deleted(t)

ConcNext == \E t \in Threads : ConcStep(t)

ConcSpec == ConcInit /\ [][ConcNext]_vars

----------------------------------------------------------------------------
(* Properties                                                              *)

\* thread t makes the synchronous call fn first, and it has completed
FirstCallIs(t, fn) == plan[t].calls # <<>> /\ plan[t].calls[1].fn = fn
FirstCallDone(t, fn) == FirstCallIs(t, fn) /\ Len(done[t]) >= 1
FirstArgs(t) == plan[t].calls[1].a

\* a key or prefix handed to the call starts with "/"
HasSlashArg(c) == startswith_slash(c.a.key) \/ startswith_slash(c.a.dkey)

\* the requests of one api sent in environment e, and their keys
ApiCalls(e, api) == SelectSeq(effects[e], LAMBDA x : x.api = api)
KeysOf(calls) == [j \in 1..Len(calls) |-> calls[j].key]

\* the failing backend interaction has taken place in environment e
BackendFailed(e) == failAt[e] >= 1 /\ io[e] >= failAt[e]

\* C1: an operation handed a key or prefix that starts with "/" (for
\* copy_object and move_object: as the source or as the destination key)
\* fails with the invalid-argument ValueError, and no backend call has been
\* issued, neither while it runs nor when it has failed.
C1_InvalidArgumentBeforeBackend ==
    \A t \in Threads :
        (/\ plan[t].calls # <<>>
         /\ plan[t].calls[1].fn \in SyncFns
         /\ HasSlashArg(plan[t].calls[1]))
        => /\ BackendCalls(EnvOf(t)) = <<>>
           /\ io[EnvOf(t)] = 0
           /\ Len(done[t]) >= 1 => done[t] = <<Raised(InvalidArgument)>>

\* C1 witness: move_object with a valid source key and a destination key
\* that starts with "/" has failed.
C1_Witness ==
    /\ FirstCallDone(1, "move_object")
    /\ ~startswith_slash(FirstArgs(1).key)
    /\ startswith_slash(FirstArgs(1).dkey)
    /\ done[1][1].exc = InvalidArgument

\* every key of every page, in page order
AllKeys(pgs) == Flatten([j \in 1..Len(pgs) |-> pgs[j].keys])
NotFolder(k) == k = <<>> \/ k[Len(k)] # "/"

\* C2: when no page request fails, list_object_keys returns the keys of
\* all pages concatenated in page order, a page without "Contents" adding
\* nothing; without the folder markers when exclude_folders is set, with
\* every key when it is not.
C2_ListingIsConcatenationOfPages ==
    \A t \in Threads :
        (/\ FirstCallDone(t, "list_object_keys")
         /\ ~startswith_slash(FirstArgs(t).key)
         /\ failAt[EnvOf(t)] \notin 1..Len(pages[EnvOf(t)]))
        => done[t][1] =
             Returned(IF FirstArgs(t).excl
                      THEN SelectSeq(AllKeys(pages[EnvOf(t)]), NotFolder)
                      ELSE AllKeys(pages[EnvOf(t)]))

\* C2 witness: a listing of two pages, one of them without "Contents", the
\* other with a folder marker, returned with exclude_folders unset.
C2_Witness ==
    /\ FirstCallDone(1, "list_object_keys")
    /\ Len(pages["e1"]) = 2
    /\ ~pages["e1"][1].has
    /\ \E j \in 1..Len(pages["e1"][2].keys) : ~NotFolder(pages["e1"][2].keys[j])
    /\ ~FirstArgs(1).excl
    /\ done[1][1].exc = "none"
    /\ Len(done[1][1].val) = 2

\* C3: move_object with valid keys sends the copy to the destination
\* first and the delete of the source second, each at most once; when the
\* delete was sent and failed, its error reaches the caller, copy and
\* delete were sent exactly once each, and the object is at the source and
\* at the destination.
C3_MoveCopiesThenDeletes ==
    \A t \in Threads :
        (FirstCallIs(t, "move_object") /\ ~HasSlashArg(plan[t].calls[1]))
        => LET e == EnvOf(t)
               a == FirstArgs(t)
               bc == BackendCalls(e)
               src == <<a.bucket, a.key>>
               dst == <<a.dbucket, a.dkey>>
           IN  /\ Len(bc) <= 2
               /\ Len(bc) >= 1 => bc[1] = Effect("copy", a.dbucket, a.dkey, NoPath)
               /\ Len(bc) = 2 => bc[2] = Effect("delete", a.bucket, a.key, NoPath)
               /\ (Len(done[t]) >= 1 /\ Len(bc) = 2 /\ failAt[e] = 2)
                  => /\ done[t] = <<Raised(StorageError)>>
                     /\ src \in DOMAIN store[e]
                     /\ dst \in DOMAIN store[e]
                     /\ store[e][dst] = store[e][src]

\* C3 witness: a move between two different objects whose delete failed.
C3_Witness ==
    /\ FirstCallDone(1, "move_object")
    /\ failAt["e1"] = 2
    /\ Len(BackendCalls("e1")) = 2
    /\ <<FirstArgs(1).bucket, FirstArgs(1).key>> # <<FirstArgs(1).dbucket, FirstArgs(1).dkey>>
    /\ done[1][1].exc = StorageError

\* the listed keys that are no folder markers, in listing order, and where
\* download_folder puts the object of key k
ListedFiles(e) == SelectSeq(AllKeys(pages[e]), NotFolder)
DestOf(t, k) == DestLocalPath(FirstArgs(t), k)
Downloaded(t, k) ==
    /\ IsFile(EnvOf(t), DestOf(t, k))
    /\ fs[EnvOf(t)][DestOf(t, k)].data = store[EnvOf(t)][<<FirstArgs(t).bucket, k>>]

\* the regular files under directory d, and the key put_folder is to give
\* file f: the prefix, a "/" unless the prefix is empty or ends in one, and
\* the components of f below d joined by "/"
FilesUnder(e, d) ==
    {p \in DOMAIN fs[e] : /\ fs[e][p].kind = "file"
                          /\ Len(p.parts) > Len(d.parts)
                          /\ IsPrefixSeq(d.parts, p.parts)}
Below(d, f) == SubSeq(f.parts, Len(d.parts) + 1, Len(f.parts))
ExpectedKey(prefix, rel) ==
    IF prefix = <<>> THEN JoinParts(rel)
    ELSE IF endswith_slash(prefix) THEN prefix \o JoinParts(rel)
    ELSE prefix \o <<"/">> \o JoinParts(rel)
KeyFor(t, f) == ExpectedKey(FirstArgs(t).key, Below(FirstArgs(t).lpath, f))

\* the number of sub-steps that completed, of m begun, given the outcome
Completed(m, out) ==
    IF out.exc \in {StorageError, LocalIOError} /\ m > 0 THEN m - 1 ELSE m

C4_Move(t) ==
    LET e == EnvOf(t)
        a == FirstArgs(t)
    IN  /\ (done[t][1].exc # "none" /\ failAt[e] # 2) => ApiCalls(e, "delete") = <<>>
        /\ (done[t][1].exc # "none" /\ ApiCalls(e, "delete") # <<>>)
           => <<a.dbucket, a.dkey>> \in DOMAIN store[e]

C4_DownloadFolder(t) ==
    LET e == EnvOf(t)
        gets == KeysOf(ApiCalls(e, "get"))
        m == Len(gets)
    IN  /\ m <= Len(ListedFiles(e))
        /\ gets = SubSeq(ListedFiles(e), 1, m)
        /\ \A j \in 1..Completed(m, done[t][1]) : Downloaded(t, gets[j])
        /\ done[t][1].exc = "none" => m = Len(ListedFiles(e))

C4_PutFolder(t) ==
    LET e == EnvOf(t)
        a == FirstArgs(t)
        files == SelectSeq(RGlob(e, a.lpath), LAMBDA p : fs[e][p].kind = "file")
        puts == KeysOf(ApiCalls(e, "put"))
        m == Len(puts)
    IN  /\ m <= Len(files)
        /\ puts = [j \in 1..m |-> KeyFor(t, files[j])]
        /\ \A j \in 1..Completed(m, done[t][1]) :
             /\ <<a.bucket, puts[j]>> \in DOMAIN store[e]
             /\ store[e][<<a.bucket, puts[j]>>] = fs[e][files[j]].data
        /\ done[t][1].exc = "none" => m = Len(files)

\* C4: move_object, download_folder and put_folder stop at the first
\* sub-step that fails: no backend interaction follows the failing one, its
\* error reaches the caller, after a failed copy no delete is sent, the
\* downloads and uploads begun are the leading ones of the listing / of the
\* directory scan, in order, and what the sub-steps before the failing one
\* did is still in place.
C4_CompositeHaltsAtFirstFailure ==
    \A t \in Threads :
        (/\ plan[t].calls # <<>>
         /\ plan[t].calls[1].fn \in {"move_object", "download_folder", "put_folder"}
         /\ ~HasSlashArg(plan[t].calls[1]))
        => LET e == EnvOf(t)
               fn == plan[t].calls[1].fn
           IN  /\ failAt[e] >= 1 => io[e] <= failAt[e]
               /\ (Len(done[t]) >= 1 /\ BackendFailed(e)) => done[t] = <<Raised(StorageError)>>
               /\ Len(done[t]) >= 1 =>
                    CASE fn = "move_object" -> C4_Move(t)
                      [] fn = "download_folder" -> C4_DownloadFolder(t)
                      [] fn = "put_folder" -> C4_PutFolder(t)

\* C4 witness: download_folder has failed in its second download, after a
\* first download that completed.
C4_Witness ==
    /\ FirstCallDone(1, "download_folder")
    /\ Len(ApiCalls("e1", "get")) = 2
    /\ BackendFailed("e1")
    /\ done[1][1].exc = StorageError
    /\ Downloaded(1, ApiCalls("e1", "get")[1].key)

\* C5 (as claimed): a download_folder with a valid prefix that meets no
\* backend and no filesystem failure returns, having downloaded exactly the
\* listed keys that do not end in "/", once each and in listing order, each
\* to local_path joined with the key's path relative to the prefix.
C5_DownloadFolderDownloadsListedFiles ==
    \A t \in Threads :
        (/\ FirstCallDone(t, "download_folder")
         /\ ~startswith_slash(FirstArgs(t).key)
         /\ done[t][1].exc \notin {StorageError, LocalIOError})
        => /\ done[t] = <<Returned(None)>>
           /\ KeysOf(ApiCalls(EnvOf(t), "get")) = ListedFiles(EnvOf(t))
           /\ \A j \in 1..Len(ListedFiles(EnvOf(t))) : Downloaded(t, ListedFiles(EnvOf(t))[j])

\* C6: a put_folder with a valid prefix that meets no failure returns,
\* having sent exactly one upload for each regular file under local_path
\* and none else; the key of a file's upload is the prefix joined with the
\* file's path below local_path, and the object holds the file's bytes.
C6_PutFolderUploadsEachFileOnce ==
    \A t \in Threads :
        (/\ FirstCallDone(t, "put_folder")
         /\ ~startswith_slash(FirstArgs(t).key)
         /\ ~BackendFailed(EnvOf(t)))
        => LET e == EnvOf(t)
               a == FirstArgs(t)
               files == FilesUnder(e, a.lpath)
               puts == ApiCalls(e, "put")
           IN  /\ done[t] = <<Returned(None)>>
               /\ Len(puts) = Cardinality(files)
               /\ {puts[j].key : j \in 1..Len(puts)} = {KeyFor(t, f) : f \in files}
               /\ DOMAIN store[e] = {<<a.bucket, KeyFor(t, f)>> : f \in files}
               /\ \A f \in files : store[e][<<a.bucket, KeyFor(t, f)>>] = fs[e][f].data

\* C6 witness: the directory holds a file, a subdirectory with a file and
\* a fifo; with prefix "u" the keys "u/a" and "u/s/b" were uploaded.
C6_Witness ==
    /\ FirstCallDone(1, "put_folder")
    /\ FirstArgs(1).key = <<"u">>
    /\ Cardinality(DOMAIN fs["e1"]) = 5
    /\ done[1][1].exc = "none"
    /\ DOMAIN store["e1"] = {<<"b1", <<"u", "/", "a">>>>, <<"b1", <<"u", "/", "s", "/", "b">>>>}

\* C7: awaiting the asynchronous variants is the same as making the
\* synchronous calls with the same arguments: from equal environments, both
\* callers get the same results and errors, and the same backend requests
\* and filesystem effects were made in the same order, leaving the same
\* remote store and local files.
C7_AsyncEqualsSync ==
    (Finished(1) /\ Finished(2))
    => /\ done[2] = done[1]
       /\ effects["e2"] = effects["e1"]
       /\ store["e2"] = store["e1"]
       /\ fs["e2"] = fs["e1"]

\* C7 witness: amove_object has resumed its caller with the error of the
\* failed delete.
C7_Witness ==
    /\ Finished(1) /\ Finished(2)
    /\ plan[2].calls[1].fn = "amove_object"
    /\ done[2] = <<Raised(StorageError)>>
    /\ Len(BackendCalls("e2")) = 2

\* C8 (as claimed): put_object of a local file and then download_object of
\* the same bucket and key, to a path that is new or holds a file, leave at
\* that path the bytes of the uploaded file, whatever the content and the
\* chunks it comes back in, when the backend does not fail.
C8_RoundTripIsIdentity ==
    \A t \in Threads :
        (/\ Len(plan[t].calls) = 2
         /\ plan[t].calls[1].fn = "put_object"
         /\ plan[t].calls[2].fn = "download_object"
         /\ Finished(t)
         /\ ~startswith_slash(FirstArgs(t).key)
         /\ IsFile(EnvOf(t), FirstArgs(t).lpath)
         /\ ~IsDir(EnvOf(t), plan[t].calls[2].a.lpath)
         /\ ~BackendFailed(EnvOf(t)))
        => /\ done[t] = <<Returned(None), Returned(None)>>
           /\ IsFile(EnvOf(t), plan[t].calls[2].a.lpath)
           /\ fs[EnvOf(t)][plan[t].calls[2].a.lpath].data = fs[EnvOf(t)][FirstArgs(t).lpath].data

\* C9 (as claimed): when every listed key has the prefix as a leading
\* string, download_folder does not fail with the error of the relative
\* path computation.
C9_NoPathErrorUnderPrefixFilter ==
    \A t \in Threads :
        (/\ FirstCallDone(t, "download_folder")
         /\ ~startswith_slash(FirstArgs(t).key)
         /\ \A j \in 1..Len(AllKeys(pages[EnvOf(t)])) :
              StartsWith(AllKeys(pages[EnvOf(t)])[j], FirstArgs(t).key))
        => done[t][1].exc # PathError

\* C10 (as claimed): the client is never closed by one worker while the
\* backend call of another worker is in flight on it.
C10_ClientNotClosedUnderInFlightCall ==
    \A t \in Threads : InFlight(t) => (~hit[t] /\ client[EnvOf(t)] = "open")

====
